---- MODULE Spec2Model ----
(***************************************************************************)
(* The YAMLpp interpreter (yamlpp/core.py) as a state machine.             *)
(*                                                                         *)
(* The tree walk of Interpreter.process_node and of the construct handlers *)
(* is recursive in the source.  Here every Python activation is a record   *)
(* on the control stack `kont` (head = innermost activation), and a value  *)
(* returned by an activation travels in `ret` to its caller.  An exception *)
(* unwinds the whole control stack: no handler of the walk has a           *)
(* try/finally, so nothing runs on the way out.                            *)
(***************************************************************************)
EXTENDS Integers, Sequences, FiniteSets, TLC

VARIABLES
    initial_tree,   \* Interpreter._initial_tree (the loaded source tree)
    stack,          \* Interpreter.stack = jinja_env.globals : sequence of frames
    filters,        \* jinja_env.filters : sequence of sets of filter names
    kont,           \* the Python call stack of the walk
    ret,            \* the value just returned to Head(kont), or Pending
    status,         \* "new" | "loaded" | "rejected" | "running" | "done" | "error"
    err,            \* the exception that ended the last walk
    tree,           \* the cached rendering (Interpreter._dot_tree, ._yaml)
    depth0,         \* Len(stack) when the running/last walk started
    walks,          \* render_tree calls since the last load
    source_dir,     \* Interpreter._source_dir, a sequence of path components
    files,          \* the file system: path -> text written by .export
    got,            \* what the last read of the property `tree` returned
    other           \* a second Interpreter instance, while this one acts

vars == <<initial_tree, stack, filters, kont, ret, status, err, tree, depth0, walks,
          source_dir, files, got, other>>

\* render_tree calls modelled per load
MaxWalks == 2

\* the attributes of an Interpreter instance, and an instance that has
\* loaded nothing
Interp(it, st, fs, k, r, s, e, c, d, w, dir, g) ==
    [initial_tree |-> it, stack |-> st, filters |-> fs, kont |-> k, ret |-> r,
     status |-> s, err |-> e, tree |-> c, depth0 |-> d, walks |-> w,
     source_dir |-> dir, got |-> g]
Self ==
    Interp(initial_tree, stack, filters, kont, ret, status, err, tree,
           depth0, walks, source_dir, got)

----------------------------------------------------------------------------
(* Nodes and values (core.py, type alias Node).                            *)

None == [t |-> "none"]
Num(n) == [t |-> "int", v |-> n]
\* a plain string scalar without template markup, e.g. a function name
Str(s) == [t |-> "str", s |-> s, refs |-> <<>>]
\* the template "{{ n1 + n2 + ... }}" ("{{ n }}" for a single name)
Tpl(names) == [t |-> "str", s |-> "", refs |-> names]
KV(k, v) == [k |-> k, v |-> v]
Map(items) == [t |-> "dict", items |-> items]
List(items) == [t |-> "list", items |-> items]

Pending == [t |-> "pending"]
NoError == [type |-> "", message |-> "", node |-> None]

HasKey(m, k) == \E i \in 1..Len(m.items) : m.items[i].k = k
KeyIndex(m, k) == CHOOSE i \in 1..Len(m.items) : m.items[i].k = k
\* dict.get(k): the value, or None
Get(m, k) == IF HasKey(m, k) THEN m.items[KeyIndex(m, k)].v ELSE None

\* Python truthiness of a node
Truthy(n) ==
    CASE n.t = "none" -> FALSE
      [] n.t = "int"  -> n.v # 0
      [] n.t = "str"  -> n.s # "" \/ n.refs # <<>>
      [] n.t \in {"dict", "list"} -> n.items # <<>>
      [] OTHER -> TRUE

\* dict.update: existing keys keep their position, new keys are appended
RECURSIVE DictUpdate(_, _)
DictUpdate(d, r) ==
    IF r = <<>> THEN d
    ELSE LET e == Head(r)
             hit == {i \in 1..Len(d) : d[i].k = e.k}
             d1 == IF hit = {} THEN Append(d, e)
                   ELSE [i \in 1..Len(d) |-> IF i \in hit THEN e ELSE d[i]]
         IN DictUpdate(d1, Tail(r))

DropNone(s) == SelectSeq(s, LAMBDA e : e.t # "none")

----------------------------------------------------------------------------
(* The scope stack (class Stack of yamlpp/stack.py).                       *)

Push(st, frame) == Append(st, frame)
Pop(st) == SubSeq(st, 1, Len(st) - 1)
Bound(st, n) == \E i \in 1..Len(st) : n \in DOMAIN st[i]
\* innermost frame wins
Lookup(st, n) ==
    LET i == CHOOSE j \in 1..Len(st) :
                 /\ n \in DOMAIN st[j]
                 /\ \A k \in (j+1)..Len(st) : n \notin DOMAIN st[k]
    IN st[i][n]
\* Stack.__setitem__ : assignment goes to the top frame
SetItem(st, n, v) == [st EXCEPT ![Len(st)] = (n :> v) @@ @]

Host == [t |-> "host"]
JINJA_GLOBALS == ("range" :> Host) @@ ("dict" :> Host)
GLOBAL_CONTEXT == ("getenv" :> Host)
JINJA_FILTERS == {"upper", "lower"}

\* an environment that the instances have in common: when another instance
\* has one, its frames are taken
ResetGlobalsShared ==
    IF other.stack # <<>> THEN other.stack ELSE Push(<<JINJA_GLOBALS>>, GLOBAL_CONTEXT)
\* Interpreter._reset_environment
ResetGlobals == Push(<<JINJA_GLOBALS>>, GLOBAL_CONTEXT)
ResetFilters == <<JINJA_FILTERS>>

----------------------------------------------------------------------------
(* Expression evaluation (Interpreter.evaluate_expression).                *)

RECURSIVE SumRefs(_, _)
SumRefs(st, names) ==
    IF names = <<>> THEN 0
    ELSE Lookup(st, Head(names)).v + SumRefs(st, Tail(names))

\* template.render() under StrictUndefined: every referenced name is bound
RenderOk(st, expr) ==
    expr.t = "str" => \A i \in 1..Len(expr.refs) : Bound(st, expr.refs[i])

\* render, then ast.literal_eval of the rendered text (the text itself when
\* it is no literal).  A non-string is rendered through repr() first, which
\* literal_eval reads back as the same plain value.
evaluate_expression(st, expr) ==
    IF expr.t # "str" THEN expr
    ELSE IF expr.refs = <<>> THEN expr
    ELSE IF Len(expr.refs) = 1 THEN Lookup(st, expr.refs[1])
    ELSE Num(SumRefs(st, expr.refs))

----------------------------------------------------------------------------
(* Activation records.                                                     *)

\* process_node(node); pc: "entry" -> ("scope" ->) "loop"/"wait" -> return
PN(node) ==
    [op |-> "process_node", pc |-> "entry", node |-> node,
     params_block |-> None, i |-> 1, result_dict |-> <<>>, result_list |-> <<>>]
\* get_scope(params_block)
GS(pb) ==
    [op |-> "get_scope", pc |-> "loop", params_block |-> pb, i |-> 1,
     new_scope |-> <<>>]
\* handle_xxx(entry)
Handler(op, entry) ==
    [op |-> op, pc |-> "entry", entry |-> entry, i |-> 1, results |-> <<>>,
     iterable |-> <<>>, var_name |-> "", full_filename |-> <<>>]
\* render_tree(), called directly (dump) or by a read of the property `tree`
RT == [op |-> "render_tree", access |-> FALSE]
RTAccess == [op |-> "render_tree", access |-> TRUE]

ScopeValue(f) == [t |-> "scope", frame |-> f]

Top == Head(kont)
Running == status = "running" /\ kont # <<>>
At(op, pc) == Running /\ Top.op = op /\ Top.pc = pc

\* the innermost activation goes on with `k`
Goto(k) == kont' = <<k>> \o Tail(kont) /\ ret' = Pending
\* the innermost activation calls `callee` and waits as `k`
Call(callee, k) == kont' = <<callee, k>> \o Tail(kont) /\ ret' = Pending
\* the innermost activation returns v to its caller
Return(v) == kont' = Tail(kont) /\ ret' = v
\* an exception: it propagates to the caller of render_tree.  `node` is the
\* node a YAMLppError is given to take its line number from (None for the
\* exceptions that carry no node).
RaiseAt(node, type, message) ==
    /\ kont' = <<>>
    /\ ret' = Pending
    /\ status' = "error"
    /\ err' = [type |-> type, message |-> message, node |-> node]
Raise(type, message) == RaiseAt(None, type, message)

Quiet == UNCHANGED <<status, err>>
SameEnv == UNCHANGED <<stack, filters>>
SameFiles == UNCHANGED <<initial_tree, tree, depth0, walks, source_dir, files, got, other>>

\* MappingEntry.get(key, strict=True) succeeds
EntryHas(entry, key) == entry.v.t = "dict" /\ HasKey(entry.v, key)

----------------------------------------------------------------------------
(* Source trees.                                                           *)

Names(args) == List([i \in 1..Len(args) |-> Str(args[i])])
\* .function: {.name: name, .args: [...], .do: body}
Function(name, args, body) ==
    KV(".function", Map(<<KV(".name", Str(name)), KV(".args", Names(args)),
                          KV(".do", body)>>))
\* .call: {.name: name, .args: [...]}
CallOf(name, args) ==
    KV(".call", Map(<<KV(".name", Str(name)), KV(".args", List(args))>>))
Context(bindings) == KV(".context", Map(bindings))
Define(bindings) == KV(".define", Map(bindings))
Do(children) == KV(".do", List(children))
Foreach(var, iter, body) ==
    KV(".foreach", Map(<<KV(".values", List(<<Str(var), iter>>)), KV(".do", body)>>))
\* {value: "{{ n1 + ... }}"}
Value(names) == Map(<<KV("value", Tpl(names))>>)
One(kv) == Map(<<kv>>)
Test(children) == One(KV("test", One(Do(children))))

\* test_basic_add_function (test_functions.py)
AddProg(a, b, c) ==
    Test(<<One(Function("add", <<"a", "b">>, Value(<<"a", "b">>))),
           One(CallOf("add", <<Num(a), Num(b)>>)),
           One(CallOf("add", <<Num(a), Num(c)>>))>>)

\* test_closure_captures_definition_environment (test_functions.py)
LateProg(x0, x1) ==
    Test(<<One(Context(<<KV("x", Num(x0))>>)),
           One(Function("get_x", <<>>, Value(<<"x">>))),
           One(Define(<<KV("x", Num(x1))>>)),
           One(CallOf("get_x", <<>>))>>)

\* test_arguments_override_captured_environment (test_functions.py)
ShadowProg(o, a) ==
    Test(<<One(Context(<<KV("x", Num(o))>>)),
           One(Function("f", <<"x">>, Value(<<"x">>))),
           One(CallOf("f", <<Num(a)>>))>>)

\* the same with the outer binding in a frame that encloses the call, and a
\* reference to the name after the call
ShadowAfterProg(o, a) ==
    Map(<<Context(<<KV("x", Num(o))>>),
          KV("test", One(Do(<<One(Function("f", <<"x">>, Value(<<"x">>))),
                              One(CallOf("f", <<Num(a)>>)),
                              One(KV("after", Tpl(<<"x">>)))>>)))>>)

\* a function reading x, called under a call-site frame that rebinds x
DynProg(a, b) ==
    Map(<<Context(<<KV("x", Num(a))>>),
          KV("test", One(Do(<<One(Function("get_x", <<>>, Value(<<"x">>))),
                              Map(<<Context(<<KV("x", Num(b))>>),
                                    CallOf("get_x", <<>>)>>)>>)))>>)

DynForeachProg(a, b) ==
    Map(<<Context(<<KV("x", Num(a))>>),
          KV("test", One(Do(<<One(Function("get_x", <<>>, Value(<<"x">>))),
                              One(Foreach("x", List(<<Num(b)>>),
                                          One(CallOf("get_x", <<>>))))>>)))>>)

\* .do children in both orders
FnFirstProg(v) ==
    Test(<<One(Function("f", <<>>, One(KV("value", Num(v))))),
           One(CallOf("f", <<>>))>>)
CallFirstProg(v) ==
    Test(<<One(CallOf("f", <<>>)),
           One(Function("f", <<>>, One(KV("value", Num(v)))))>>)
DefineProg(v) ==
    Test(<<One(Define(<<KV("x", Num(v))>>)), Value(<<"x">>)>>)

\* test_nested_function_invisible (test_functions.py); outer has the formal
\* arguments `formals`, and is called first when callOuter
NestedProg(formals, callOuter) ==
    LET outer == One(Function("outer", formals,
                       One(Function("inner", <<>>, One(KV("value", Num(1)))))))
        args == [i \in 1..Len(formals) |-> Num(i)]
    IN Test(<<outer>>
            \o (IF callOuter THEN <<One(CallOf("outer", args))>> ELSE <<>>)
            \o <<One(CallOf("inner", <<>>))>>)

\* a mapping with .context and a sibling .function, then a call from outside
CtxProg(bindings) ==
    Test(<<Map(<<Context(bindings),
                 Function("f", <<>>, One(KV("value", Num(1))))>>),
           One(CallOf("f", <<>>))>>)
\* a root mapping with .context
RootCtxProg(bindings) ==
    Map(<<Context(bindings), KV("a", Num(1)), KV("b", Num(2))>>)

\* .context at position pos among the keys k1, k2 of a mapping
Insert(s, pos, e) == SubSeq(s, 1, pos - 1) \o <<e>> \o SubSeq(s, pos, Len(s))
PosProg(pos, v, w) ==
    Map(<<Context(<<KV("x", Num(w))>>),
          KV("test", Map(Insert(<<KV("k1", Tpl(<<"x">>)), KV("k2", Tpl(<<"x">>))>>,
                                pos, Context(<<KV("x", Num(v))>>))))>>)

\* walks that end in an error below a pushed frame
ErrCtxProg(v) ==
    Map(<<Context(<<KV("x", Num(v))>>), KV("test", One(CallOf("nope", <<>>)))>>)
ErrForeachProg(v) ==
    One(KV("test", One(Foreach("i", List(<<Num(v), Num(v + 1)>>), Value(<<"y">>)))))
ForeachProg(v) ==
    One(KV("test", One(Foreach("i", List(<<Num(v), Num(v + 1)>>), Value(<<"i">>)))))
\* a plain sequence with a null item
ListProg(v) ==
    One(KV("test", List(<<None, Num(v), Num(v + 1)>>)))

\* test_call_undefined_function (test_functions.py)
UndefinedCallProg == Test(<<One(CallOf("does_not_exist", <<Num(1), Num(2)>>))>>)
\* test_wrong_argument_count (test_functions.py): add(a, b) called with n
\* arguments
WrongArityProg(n) ==
    Test(<<One(Function("add", <<"a", "b">>, Value(<<"a", "b">>))),
           One(CallOf("add", [i \in 1..n |-> Num(i)]))>>)
\* test_arguments_not_list (test_functions.py): `.args: 123`
ArgsNotListProg ==
    Test(<<One(Function("add", <<"a", "b">>, Value(<<"a", "b">>))),
           One(KV(".call", Map(<<KV(".name", Str("add")), KV(".args", Num(123))>>)))>>)

\* test: {.foreach: {.values: [i, xs], .do: {value: "{{ i }}"}}}
ForeachSeqProg(xs) ==
    One(KV("test", One(Foreach("i", List([j \in 1..Len(xs) |-> Num(xs[j])]),
                               Value(<<"i">>)))))
ForeachInputs == {<<>>, <<2>>, <<2, 1>>}

\* S5 / test_function_to_create_abstraction (test_examples.py), with the
\* services bound by .context and each service reduced to its name:
\* services: {.foreach: {.values: [svc, "{{ services }}"],
\*                       .do: {"{{ svc }}": {image: "{{ svc }}"}}}}
ServicesProg(names) ==
    Map(<<Context(<<KV("services", List([j \in 1..Len(names) |-> Str(names[j])]))>>),
          KV("services",
             One(Foreach("svc", Tpl(<<"services">>),
                         One(KV("{{ svc }}", One(KV("image", Tpl(<<"svc">>))))))))>>)

\* test_handle_export_all_formats (test_export.py): the exported payload
Payload == One(KV("server", Map(<<KV("foo", Str("bar")), KV("baz", Num(5))>>)))
\* .export: {.filename: filename, <key>: Payload, .format: format}, beside a
\* plain key (.format is left out when format is "")
ExportProg(filename, key, format) ==
    Map(<<KV(".export",
             Map(<<KV(".filename", Str(filename)), KV(key, Payload)>>
                 \o (IF format = "" THEN <<>> ELSE <<KV(".format", Str(format))>>))),
          KV("kept", Num(1))>>)
ExportName(format) == "export." \o format

\* x is matched against the cases a and b; the branch b cannot be evaluated
\* (it references an unbound name); .default is a sibling of .cases
SwitchProg(x, default) ==
    Map(<<Context(<<KV("x", Str(x))>>),
          KV("test",
             One(KV(".switch",
                    Map(<<KV(".expr", Tpl(<<"x">>)),
                          KV(".cases",
                             Map(<<KV("a", One(KV("chosen", Str("a")))),
                                   KV("b", One(KV("chosen", Tpl(<<"nope">>))))>>))>>
                        \o (IF default
                            THEN <<KV(".default", One(KV("chosen", Str("default"))))>>
                            ELSE <<>>)))))>>)

IfProg(c) ==
    One(KV("test", One(KV(".if", Map(<<KV(".cond", Num(c)),
                                       KV(".then", One(KV("v", Str("then")))),
                                       KV(".else", One(KV("v", Str("else"))))>>)))))

\* a template referencing the unbound name nope, in each position
UndefPositions == {"scalar", "foreach", "if", "switch", "export"}
UndefProg(where) ==
    LET nope == Tpl(<<"nope">>) IN
    CASE where = "scalar" -> One(KV("test", nope))
      [] where = "foreach" -> One(KV("test", One(Foreach("i", nope, Value(<<"i">>)))))
      [] where = "if" ->
            One(KV("test", One(KV(".if", Map(<<KV(".cond", nope),
                                               KV(".then", Num(1))>>)))))
      [] where = "switch" ->
            One(KV("test", One(KV(".switch",
                                  Map(<<KV(".expr", nope),
                                        KV(".cases", One(KV("a", Num(1))))>>)))))
      [] where = "export" ->
            Map(<<KV(".export", Map(<<KV(".filename", nope), KV(".content", Payload)>>)),
                  KV("kept", Num(1))>>)

\* .module inside a frame pushed by .context, by a .call with an argument,
\* or by a .foreach iteration; the key `used` is evaluated inside the frame
ModuleProg(how) ==
    LET body == Map(<<KV(".module", Str("module.py")), KV("used", Num(1))>>) IN
    CASE how = "context" ->
            One(KV("test", Map(<<Context(<<KV("x", Num(1))>>)>> \o body.items)))
      [] how = "call" ->
            Test(<<One(Function("f", <<"x">>, body)),
                   One(CallOf("f", <<Num(1)>>))>>)
      [] how = "foreach" ->
            One(KV("test", One(Foreach("i", List(<<Num(1)>>), body))))
ModuleFrames == {"context", "call", "foreach"}

\* a tree that the schema rejects: .foreach takes a mapping
InvalidProg == One(KV("test", One(KV(".foreach", Str("oops")))))

\* a mapping whose keys give a sequence (.do), mappings (a plain key, an
\* .if with a mapping branch) and scalars (an .if with a scalar branch), or
\* nothing at all (.function)
If(cond, then) == KV(".if", Map(<<KV(".cond", Num(cond)), KV(".then", then)>>))
MixKinds == {"both", "lists", "mappings", "nothing"}
MixProg(kinds) ==
    LET do == Do(<<Num(1), Num(2)>>)
        override == If(1, Map(<<KV("a", Num(2)), KV("b", Num(3))>>))
        each == Foreach("i", List(<<Num(4)>>), Tpl(<<"i">>))
    IN One(KV("test",
              CASE kinds = "both" -> Map(<<do, KV("a", Num(1)), override>>)
                [] kinds = "mappings" -> Map(<<KV("a", Num(1)), override>>)
                [] kinds = "lists" -> Map(<<do, If(1, Num(3)), each>>)
                [] kinds = "nothing" ->
                      Map(<<Function("f", <<>>, Value(<<"x">>)), If(0, Num(1))>>)))

\* the content of lib.yaml: a function at the top level, and a key that
\* reads a name of the importer
LibTree ==
    Map(<<Function("f", <<>>, One(KV("value", Num(1)))), KV("seen", Tpl(<<"x">>))>>)
\* x is bound, lib.yaml is imported, then f is called
ImportProg(v) ==
    Map(<<Context(<<KV("x", Num(v))>>),
          KV("test", One(Do(<<One(KV(".import", Str("lib.yaml"))),
                              One(CallOf("f", <<>>))>>)))>>)

Programs ==
    {AddProg(3, 4, 5), LateProg(10, 999), FnFirstProg(1), CallFirstProg(1),
     DefineProg(7), ErrCtxProg(1), ErrForeachProg(1), ForeachProg(1),
     ListProg(1), UndefinedCallProg, ArgsNotListProg,
     ServicesProg(<<"api", "worker">>)}
    \cup {WrongArityProg(n) : n \in {1, 3}}
    \cup {ForeachSeqProg(xs) : xs \in ForeachInputs}
    \cup {ShadowProg(5, a) : a \in {5, 42}}
    \cup {ShadowAfterProg(5, a) : a \in {5, 42}}
    \cup {DynProg(p[1], p[2]) : p \in {1, 2} \X {1, 2}}
    \cup {DynForeachProg(p[1], p[2]) : p \in {1, 2} \X {1, 2}}
    \cup {NestedProg(p[1], p[2]) : p \in {<<>>, <<"y">>} \X BOOLEAN}
    \cup {CtxProg(b) : b \in {<<>>, <<KV("x", Num(1))>>}}
    \cup {RootCtxProg(b) : b \in {<<>>, <<KV("x", Num(1))>>}}
    \cup {PosProg(p[1], p[2], p[3]) : p \in {1, 2, 3} \X {1, 2} \X {2}}

----------------------------------------------------------------------------
(* Interpreter.load and Interpreter.render_tree.                           *)

\* dict.__setitem__ on an ordered mapping
SetKey(m, k, v) == Map(DictUpdate(m.items, <<KV(k, v)>>))


\* os.getcwd(), and the directory of the files that load() reads
CWD == <<"cwd">>
SOURCE_DIR == <<"home", "project">>

\* Interpreter(source_dir=GIVEN_DIR): __init__ sets _source_dir only when
\* no source_dir is given, so the attribute does not exist
GIVEN_DIR == <<"tmp", "given">>
NoSourceDir == <<"", "AttributeError">>
HasSourceDir == source_dir # NoSourceDir
\* self._jinja_env exists once _reset_environment has run
HasEnvironment == stack # <<>>

\* Interpreter(): a second instance that has loaded nothing
Fresh ==
    Interp(None, <<>>, <<>>, <<>>, Pending, "new", NoError, None, 0, 0, CWD, Pending)

\* Interpreter.__init__() without a filename: nothing is loaded yet
Init ==
    /\ initial_tree = None
    /\ stack = <<>>
    /\ filters = <<>>
    /\ kont = <<>>
    /\ ret = Pending
    /\ status = "new"
    /\ err = NoError
    /\ tree = None
    /\ depth0 = 0
    /\ walks = 0
    /\ source_dir = CWD
    /\ files = <<>>
    /\ got = Pending
    /\ other = Fresh

\* Interpreter.__init__(source_dir=GIVEN_DIR) without a filename
InitWithDir ==
    /\ initial_tree = None
    /\ stack = <<>>
    /\ filters = <<>>
    /\ kont = <<>>
    /\ ret = Pending
    /\ status = "new"
    /\ err = NoError
    /\ tree = None
    /\ depth0 = 0
    /\ walks = 0
    /\ source_dir = NoSourceDir
    /\ files = <<>>
    /\ got = Pending
    /\ other = Fresh

\* load(filename): a new source tree and a fresh environment
load(p) ==
    /\ status # "running"
    /\ initial_tree' = p
    /\ stack' = ResetGlobals
    /\ filters' = ResetFilters
    /\ status' = "loaded"
    /\ walks' = 0
    /\ depth0' = Len(ResetGlobals)
    /\ source_dir' = SOURCE_DIR
    /\ got' = Pending
    /\ UNCHANGED <<kont, ret, err, tree, files, other>>

\* validate_node(node) finds no error: the trees of the model match the
\* schema, but for InvalidProg
Valid(node) == node # InvalidProg

\* load(filename, validate=True): the tree is validated once it is stored,
\* and the environment is reset only after that
load_validate(p) ==
    /\ status # "running"
    /\ IF Valid(p)
       THEN load(p)
       ELSE /\ source_dir' = SOURCE_DIR
            /\ initial_tree' = p
            /\ status' = "rejected"
            /\ err' = [type |-> "ValidationError", message |-> "", node |-> p]
            /\ walks' = 0
            /\ got' = Pending
            /\ UNCHANGED <<stack, filters, kont, ret, tree, depth0, files, other>>

\* render_tree(), entry: self.process_node(self.initial_tree)
StartWalk(rt) ==
    /\ walks < MaxWalks
    /\ walks' = walks + 1
    /\ depth0' = Len(stack)
    /\ IF initial_tree.t \in {"dict", "list"} /\ initial_tree.items # <<>>
       THEN /\ kont' = <<PN(initial_tree), rt>>
            /\ ret' = Pending
            /\ status' = "running"
            /\ UNCHANGED err
       ELSE Raise("AssertionError", "Empty yamlpp!")
    /\ UNCHANGED <<initial_tree, stack, filters, tree, source_dir, files, got, other>>

\* a direct call of render_tree(), or dump(), which forces the walk
render_tree ==
    /\ status \in {"loaded", "rejected", "done", "error"}
    /\ StartWalk(RT)

\* `if self._dot_tree is None: self.render_tree()` (the same for _yaml)
Cached(cache) == cache # None

\* a read of the property `tree` (or `yaml`): lazy, the cache is returned
\* when there is one
tree_get ==
    /\ status \in {"loaded", "rejected", "done", "error"}
    /\ IF Cached(tree)
       THEN /\ got' = tree
            /\ UNCHANGED <<initial_tree, stack, filters, kont, ret, status, err,
                           tree, depth0, walks, source_dir, files, other>>
       ELSE StartWalk(RTAccess)

\* render_tree(), after process_node returned: the asserts, then the cache
render_tree_done ==
    /\ Running /\ Top.op = "render_tree" /\ ret.t # "pending"
    /\ IF ret.t \in {"dict", "list"}
       THEN /\ tree' = ret
            /\ got' = IF Top.access THEN ret ELSE got
            /\ status' = "done"
            /\ kont' = <<>>
            /\ ret' = Pending
            /\ UNCHANGED err
       ELSE /\ Raise("AssertionError", "")
            /\ UNCHANGED <<tree, got>>
    /\ UNCHANGED <<initial_tree, stack, filters, depth0, walks, source_dir, files, other>>

----------------------------------------------------------------------------
(* Interpreter.process_node.                                               *)

\* (mutant) the .context block is honoured only as the first key
ParamsBlockFirstKey(node) ==
    IF node.items # <<>> /\ node.items[1].k = ".context" THEN node.items[1].v ELSE None
\* node.get(".context")
ParamsBlock(node) == Get(node, ".context")
\* `if params_block:` before the loop
OpensScope(params_block) == Truthy(params_block)
\* (mutant) the pop after the loop is unconditional
ClosesScopeAlways(params_block) == TRUE
\* `if params_block:` after the loop
ClosesScope(params_block) == Truthy(params_block)

\* None, a string, a scalar: the node is evaluated on the spot
process_node_scalar ==
    /\ At("process_node", "entry") /\ Top.node.t \notin {"dict", "list"}
    /\ IF Top.node.t = "str" /\ ~RenderOk(stack, Top.node)
       THEN Raise("ValueError", "Variable error in string node")
       ELSE /\ Return(IF Top.node.t = "str"
                      THEN evaluate_expression(stack, Top.node) ELSE Top.node)
            /\ Quiet
    /\ SameEnv /\ SameFiles

\* a mapping: the .context block, if any, is evaluated first
process_node_dict ==
    /\ At("process_node", "entry") /\ Top.node.t = "dict"
    /\ LET pb == ParamsBlock(Top.node)
           me == [Top EXCEPT !.params_block = pb]
       IN IF OpensScope(pb)
          THEN IF pb.t = "dict"
               THEN Call(GS(pb), [me EXCEPT !.pc = "scope"]) /\ Quiet
               ELSE Raise("ValueError", "A parameter block must be a dictionary")
          ELSE Goto([me EXCEPT !.pc = "loop"]) /\ Quiet
    /\ SameEnv /\ SameFiles

\* get_scope: one value of the parameter block per step, in the current stack
get_scope ==
    /\ At("get_scope", "loop")
    /\ LET items == Top.params_block.items IN
       IF ret.t # "pending"
       THEN Goto([Top EXCEPT !.new_scope = (items[Top.i].k :> ret) @@ @,
                             !.i = @ + 1])
       ELSE IF Top.i <= Len(items)
       THEN Call(PN(items[Top.i].v), Top)
       ELSE Return(ScopeValue(Top.new_scope))
    /\ Quiet /\ SameEnv /\ SameFiles

\* the new scope is pushed, on the globals and on the filters
process_node_push ==
    /\ At("process_node", "scope") /\ ret.t = "scope"
    /\ stack' = Push(stack, ret.frame)
    /\ filters' = Push(filters, {})
    /\ Goto([Top EXCEPT !.pc = "loop"])
    /\ Quiet /\ SameFiles

\* the loop over the keys: dispatch of one key
process_node_key ==
    /\ At("process_node", "loop") /\ Top.i <= Len(Top.node.items)
    /\ LET entry == Top.node.items[Top.i]
           wait == [Top EXCEPT !.pc = "wait"]
       IN CASE entry.k = ".context" ->
                 Goto([Top EXCEPT !.i = @ + 1])
            [] entry.k = ".do" -> Call(Handler("handle_do", entry), wait)
            [] entry.k = ".foreach" -> Call(Handler("handle_foreach", entry), wait)
            [] entry.k = ".function" -> Call(Handler("handle_function", entry), wait)
            [] entry.k = ".call" -> Call(Handler("handle_call", entry), wait)
            [] entry.k = ".switch" -> Call(Handler("handle_switch", entry), wait)
            [] entry.k = ".if" -> Call(Handler("handle_if", entry), wait)
            [] entry.k = ".export" -> Call(Handler("handle_export", entry), wait)
            [] entry.k = ".module" -> Call(Handler("handle_module", entry), wait)
            [] entry.k = ".import" -> Call(Handler("handle_import", entry), wait)
            [] OTHER -> Call(PN(entry.v), wait)
    /\ Quiet /\ SameEnv /\ SameFiles

\* the keys dispatched to a handler; every other key is a normal YAML key
\* (.define among them: process_node has no branch for it)
IsConstruct(k) ==
    k \in {".context", ".do", ".foreach", ".function", ".call", ".switch", ".if",
           ".export", ".module", ".import"}

\* the result r of one key goes to result_dict or to result_list
process_node_collect ==
    /\ At("process_node", "wait") /\ ret.t # "pending"
    /\ LET key == Top.node.items[Top.i].k
           r == IF IsConstruct(key) THEN ret ELSE Map(<<KV(key, ret)>>)
           next == [Top EXCEPT !.pc = "loop", !.i = @ + 1]
       IN CASE r.t = "none" -> Goto(next)
            [] r.t = "dict" ->
                 Goto([next EXCEPT !.result_dict = DictUpdate(@, r.items)])
            [] r.t = "list" ->
                 Goto([next EXCEPT !.result_list = @ \o r.items])
            [] OTHER -> Goto([next EXCEPT !.result_list = Append(@, r)])
    /\ Quiet /\ SameEnv /\ SameFiles

\* (mutant) the list wins over the mapping
CombinedListFirst(result_dict, result_list) ==
    IF result_list # <<>> THEN List(result_list)
    ELSE IF result_dict # <<>> THEN Map(result_dict)
    ELSE None
\* if len(result_dict): return result_dict; elif len(result_list): return
\* result_list; (else None)
Combined(result_dict, result_list) ==
    IF result_dict # <<>> THEN Map(result_dict)
    ELSE IF result_list # <<>> THEN List(result_list)
    ELSE None

\* after the loop: end of the scope, and the combined result
process_node_exit ==
    /\ At("process_node", "loop") /\ Top.i > Len(Top.node.items)
    /\ IF ClosesScope(Top.params_block)
       THEN stack' = Pop(stack) /\ filters' = Pop(filters)
       ELSE SameEnv
    /\ Return(Combined(Top.result_dict, Top.result_list))
    /\ Quiet /\ SameFiles

\* a sequence: every item is processed, None results are dropped
process_node_list ==
    /\ Running /\ Top.op = "process_node" /\ Top.node.t = "list"
    /\ Top.pc \in {"entry", "items"}
    /\ IF ret.t # "pending"
       THEN Goto([Top EXCEPT !.result_list = Append(@, ret), !.i = @ + 1])
       ELSE IF Top.i <= Len(Top.node.items)
       THEN Call(PN(Top.node.items[Top.i]), [Top EXCEPT !.pc = "items"])
       ELSE Return(LET r == DropNone(Top.result_list)
                   IN IF r # <<>> THEN List(r) ELSE None)
    /\ Quiet /\ SameEnv /\ SameFiles

----------------------------------------------------------------------------
(* The construct handlers.                                                 *)

\* `for node in entry.value`: the items of a list, the keys of a mapping
Iterate(value) ==
    IF value.t = "list" THEN value.items
    ELSE IF value.t = "dict"
    THEN [i \in 1..Len(value.items) |-> Str(value.items[i].k)]
    ELSE <<>>

\* what handle_do returns: every child's result, in order
DoResults(results) == results

\* handle_do: the children in order
handle_do ==
    /\ Running /\ Top.op = "handle_do"
    /\ LET children == Iterate(Top.entry.v) IN
       IF ret.t # "pending"
       THEN Goto([Top EXCEPT !.results = Append(@, ret), !.i = @ + 1])
       ELSE IF Top.i <= Len(children)
       THEN Call(PN(children[Top.i]), [Top EXCEPT !.pc = "wait"])
       ELSE Return(List(DoResults(Top.results)))
    /\ Quiet /\ SameEnv /\ SameFiles

\* handle_foreach, entry: the loop variable and the evaluated iterable
handle_foreach_values ==
    /\ At("handle_foreach", "entry")
    /\ IF Top.entry.v.t # "dict"
       THEN Raise("TypeError", "MappingEntry.get")
       ELSE IF ~EntryHas(Top.entry, ".values")
       THEN Raise("KeyNotFound", ".values")
       ELSE LET values == Get(Top.entry.v, ".values").items
                iterable_expr == values[2]
            IN IF ~RenderOk(stack, iterable_expr)
               THEN Raise("UndefinedError", "")
               ELSE IF evaluate_expression(stack, iterable_expr).t
                           \notin {"list", "dict"}
               THEN Raise("TypeError", "not iterable")
               ELSE /\ Goto([Top EXCEPT
                              !.pc = "loop",
                              !.var_name = values[1].s,
                              !.iterable =
                                  Iterate(evaluate_expression(stack, iterable_expr))])
                    /\ Quiet
    /\ SameEnv /\ SameFiles

\* handle_foreach, loop head: push the frame of one item, process the body
handle_foreach_item ==
    /\ At("handle_foreach", "loop")
    /\ IF Top.i > Len(Top.iterable)
       THEN Return(List(Top.results)) /\ Quiet /\ SameEnv
       ELSE /\ stack' = Push(stack, Top.var_name :> Top.iterable[Top.i])
            /\ UNCHANGED filters
            /\ IF EntryHas(Top.entry, ".do")
               THEN Call(PN(Get(Top.entry.v, ".do")), [Top EXCEPT !.pc = "body"])
                    /\ Quiet
               ELSE Raise("KeyNotFound", ".do")
    /\ SameFiles

\* (mutant) the body's result is put in front of the earlier ones
ForeachCollectFirst(results, r) == <<r>> \o results
\* results.append(self.process_node(do))
ForeachCollect(results, r) == Append(results, r)

\* handle_foreach, loop tail: collect the body's result, pop the frame
handle_foreach_pop ==
    /\ At("handle_foreach", "body") /\ ret.t # "pending"
    /\ stack' = Pop(stack)
    /\ UNCHANGED filters
    /\ Goto([Top EXCEPT !.pc = "loop", !.results = ForeachCollect(@, ret),
                         !.i = @ + 1])
    /\ Quiet /\ SameFiles

\* (mutant) the definition gives its block as output
FunctionReturnBlock(entry) == entry.v
\* handle_function ends with `return None`
FunctionReturn(entry) == None

\* handle_function: the block is bound under its name; nothing is evaluated
handle_function ==
    /\ Running /\ Top.op = "handle_function"
    /\ IF EntryHas(Top.entry, ".name")
       THEN /\ stack' = SetItem(stack, Get(Top.entry.v, ".name").s, Top.entry.v)
            /\ Return(FunctionReturn(Top.entry))
            /\ Quiet
       ELSE Raise("KeyNotFound", ".name") /\ UNCHANGED stack
    /\ UNCHANGED filters /\ SameFiles

\* dict(zip(formal_args, args))
AssignedArgs(formal_args, args) ==
    LET n == IF Len(formal_args) < Len(args) THEN Len(formal_args) ELSE Len(args)
    IN Map(DictUpdate(<<>>, [i \in 1..n |-> KV(formal_args[i].s, args[i])]))

\* (mutant) the arguments are not attached to the body
NewBlockNoArgs(actions, assigned_args) == actions
\* new_block = actions.copy(); new_block['.context'] = assigned_args
NewBlock(actions, assigned_args) == SetKey(actions, ".context", assigned_args)

\* (mutant) new_block = actions, without the copy: the arguments of the
\* call are attached to the stored body
StoredAfterCallInPlace(st, entry) ==
    LET name == Get(entry.v, ".name").s
        frame == CHOOSE j \in 1..Len(st) :
                     /\ name \in DOMAIN st[j]
                     /\ \A k \in (j + 1)..Len(st) : name \notin DOMAIN st[k]
        function == st[frame][name]
        called ==
            /\ EntryHas(entry, ".name") /\ Bound(st, name)
            /\ Lookup(st, name).t = "dict"
            /\ HasKey(Lookup(st, name), ".args") /\ HasKey(Lookup(st, name), ".do")
            /\ EntryHas(entry, ".args")
            /\ Get(entry.v, ".args").t = "list"
            /\ Get(Lookup(st, name), ".args").t = "list"
            /\ Len(Get(entry.v, ".args").items) = Len(Get(Lookup(st, name), ".args").items)
            /\ Get(Lookup(st, name), ".do").t = "dict"
    IN IF ~called THEN st
       ELSE [st EXCEPT ![frame][name] =
                SetKey(function, ".do",
                       NewBlock(Get(function, ".do"),
                                AssignedArgs(Get(function, ".args").items,
                                             Get(entry.v, ".args").items)))]
\* new_block = actions.copy(): the call works on a copy, what is stored
\* under the name stays as it is
StoredAfterCall(st, entry) == st

\* (mutant) the error is raised on the function's name, not on the entry
CallNotFoundNoEntry(entry, name) == RaiseAt(Str(name), "KeyNotFound", name)
\* raise YAMLppError(entry, Error.KEY, f"Function '{name}' not found!")
CallNotFound(entry, name) == RaiseAt(entry, "KeyNotFound", name)
\* raise YAMLppError(entry, Error.ARGUMENTS, "No of arguments not matching...")
ArgumentMismatch(entry, name) == RaiseAt(entry, "ArgumentMismatch", name)

\* handle_call: look the function up, bind the arguments, process the body
handle_call ==
    /\ Running /\ Top.op = "handle_call"
    /\ LET entry == Top.entry
           name == Get(entry.v, ".name").s
       IN IF ~EntryHas(entry, ".name")
          THEN Raise("KeyNotFound", ".name")
          ELSE IF ~Bound(stack, name)
          THEN CallNotFound(entry, name)
          ELSE LET function == KV(name, Lookup(stack, name)) IN
               IF function.v.t \notin {"dict", "list"}
               THEN Raise("TypeError", "YAMLppError.__init__")
               ELSE IF ~EntryHas(function, ".args") \/ ~EntryHas(entry, ".args")
               THEN Raise("KeyNotFound", ".args")
               ELSE LET formal_args == Get(function.v, ".args")
                        args == Get(entry.v, ".args")
                    IN IF args.t # "list" \/ formal_args.t # "list"
                       THEN Raise("TypeError", "len")
                       ELSE IF Len(args.items) # Len(formal_args.items)
                       THEN ArgumentMismatch(entry, name)
                       ELSE IF ~EntryHas(function, ".do")
                       THEN Raise("KeyNotFound", ".do")
                       ELSE IF Get(function.v, ".do").t # "dict"
                       THEN Raise("TypeError", ".context")
                       ELSE /\ Goto(PN(NewBlock(Get(function.v, ".do"),
                                       AssignedArgs(formal_args.items, args.items))))
                            /\ Quiet
    /\ stack' = StoredAfterCall(stack, Top.entry)
    /\ UNCHANGED filters
    /\ SameFiles

----------------------------------------------------------------------------

----------------------------------------------------------------------------
(* Paths, files and serialized texts.                                      *)

\* the file names of the source trees, as str.split("/") reads them
FileNames ==
    ("module.py" :> <<"module.py">>) @@ ("lib.yaml" :> <<"lib.yaml">>) @@ ("export.yaml" :> <<"export.yaml">>) @@ ("export.json" :> <<"export.json">>)
    @@ ("export.toml" :> <<"export.toml">>) @@ ("export.python" :> <<"export.python">>)
    @@ ("../export.yaml" :> <<"..", "export.yaml">>)
    @@ ("/tmp/export.yaml" :> <<"tmp", "export.yaml">>)
isabs(name) == name = "/tmp/export.yaml"

\* os.path.join(dir, name): an absolute name replaces dir; nothing is
\* normalised
join(dir, name) == IF isabs(name) THEN FileNames[name] ELSE dir \o FileNames[name]

\* the file that the system opens for a path: ".." steps to the parent
RECURSIVE Canonical(_, _)
Canonical(done, rest) ==
    IF rest = <<>> THEN done
    ELSE IF Head(rest) = ".."
    THEN Canonical(SubSeq(done, 1, Len(done) - 1), Tail(rest))
    ELSE Canonical(Append(done, Head(rest)), Tail(rest))
open(path) == Canonical(<<>>, path)

\* f.write(text) on a file opened with mode 'w'
Write(fs, path, text) == (path :> text) @@ fs

\* path lies below dir
Under(dir, path) == Len(path) > Len(dir) /\ SubSeq(path, 1, Len(dir)) = dir

FILE_FORMATS == {"yaml", "json", "toml", "python"}
\* a text: the syntax it is written in and the values it denotes
Text(format, data) == [format |-> format, data |-> data]
\* Interpreter.to_yaml(node): always YAML, in block style
to_yaml(node) == Text("yaml", node)
ParseError == [t |-> "error"]
\* what a call gives: a value, or the exception it raises
Raised(type) == [t |-> "raise", type |-> type]

\* the format names a caller passes; "" stands for None and for the empty
\* string, which `if format:` treats alike
FormatNames ==
    {"", "yaml", "json", "toml", "python", "YAML", "Json", "TOML", "Python",
     "xml", "XML", "yml", "ini"}
\* str.lower()
lower(format) ==
    CASE format \in {"YAML", "yaml"} -> "yaml"
      [] format \in {"Json", "json"} -> "json"
      [] format \in {"TOML", "toml"} -> "toml"
      [] format \in {"Python", "python"} -> "python"
      [] format \in {"XML", "xml"} -> "xml"
      [] OTHER -> format
\* if format: format = format.lower() else: format = 'yaml'
NormalFormat(format) == IF format # "" THEN lower(format) ELSE "yaml"

\* util.deserialize(text, format): the parser of `format` reads its own
\* syntax (the YAML parser reads JSON too); the block-style YAML of a
\* non-empty collection is no JSON, TOML or Python literal.  A format that
\* is not supported raises ValueError.
deserialize(text, format) ==
    LET fmt == NormalFormat(format) IN
    IF fmt \notin FILE_FORMATS THEN Raised("ValueError")
    ELSE IF text.format = fmt \/ (fmt = "yaml" /\ text.format = "json")
    THEN text.data
    ELSE ParseError

\* tree = self.process_node(entry['.content'])
ExportPayloadKey == ".content"

\* cases[expr_value] if expr_value in cases, else cases.get(".default")
SwitchBranch(entry, cases, expr_value) ==
    IF expr_value.t = "str" /\ HasKey(cases, expr_value.s)
    THEN Get(cases, expr_value.s)
    ELSE Get(cases, ".default")

\* handle_switch: the branch of .cases under the value of .expr, else the
\* entry ".default" of .cases
handle_switch ==
    /\ Running /\ Top.op = "handle_switch"
    /\ LET entry == Top.entry IN
       IF entry.v.t # "dict"
       THEN Raise("TypeError", "MappingEntry.get")
       ELSE IF ~EntryHas(entry, ".expr")
       THEN RaiseAt(entry.v, "KeyNotFound", ".expr")
       ELSE IF ~RenderOk(stack, Get(entry.v, ".expr"))
       THEN Raise("UndefinedError", "")
       ELSE IF ~EntryHas(entry, ".cases")
       THEN RaiseAt(entry.v, "KeyNotFound", ".cases")
       ELSE LET expr_value == evaluate_expression(stack, Get(entry.v, ".expr"))
                cases == Get(entry.v, ".cases")
            IN IF expr_value.t \in {"dict", "list"}
               THEN Raise("TypeError", "unhashable")
               ELSE IF cases.t # "dict"
               THEN Raise("TypeError", ".cases")
               ELSE /\ Goto(PN(SwitchBranch(entry, cases, expr_value)))
                    /\ Quiet
    /\ SameEnv /\ SameFiles

\* handle_if: .then under a true .cond, else .else (None when absent)
handle_if ==
    /\ Running /\ Top.op = "handle_if"
    /\ LET entry == Top.entry IN
       IF entry.v.t # "dict"
       THEN Raise("TypeError", "MappingEntry.get")
       ELSE IF ~EntryHas(entry, ".cond")
       THEN RaiseAt(entry.v, "KeyNotFound", ".cond")
       ELSE IF ~RenderOk(stack, Get(entry.v, ".cond"))
       THEN Raise("UndefinedError", "")
       ELSE IF Truthy(evaluate_expression(stack, Get(entry.v, ".cond")))
       THEN IF EntryHas(entry, ".then")
            THEN Goto(PN(Get(entry.v, ".then"))) /\ Quiet
            ELSE RaiseAt(entry.v, "KeyNotFound", ".then")
       ELSE Goto(PN(Get(entry.v, ".else"))) /\ Quiet
    /\ SameEnv /\ SameFiles

\* handle_export, first part: the file name, then the payload is processed
handle_export ==
    /\ At("handle_export", "entry")
    /\ LET entry == Top.entry IN
       IF entry.v.t # "dict"
       THEN Raise("TypeError", "MappingEntry.get")
       ELSE IF ~EntryHas(entry, ".filename")
       THEN RaiseAt(entry.v, "KeyNotFound", ".filename")
       ELSE IF ~HasEnvironment
       THEN Raise("AttributeError", "_jinja_env")
       ELSE IF ~RenderOk(stack, Get(entry.v, ".filename"))
       THEN Raise("UndefinedError", "")
       ELSE LET filename == evaluate_expression(stack, Get(entry.v, ".filename")) IN
            IF ~HasSourceDir
            THEN Raise("AttributeError", "_source_dir")
            ELSE IF filename.t # "str"
            THEN Raise("TypeError", "os.path.join")
            ELSE IF ~EntryHas(entry, ExportPayloadKey)
            THEN RaiseAt(entry.v, "KeyNotFound", ExportPayloadKey)
            ELSE /\ Call(PN(Get(entry.v, ExportPayloadKey)),
                         [Top EXCEPT !.pc = "write",
                                     !.full_filename = join(source_dir, filename.s)])
                 /\ Quiet
    /\ SameEnv /\ SameFiles

\* handle_export, second part: the YAML text of the payload is written
handle_export_write ==
    /\ At("handle_export", "write") /\ ret.t # "pending"
    /\ files' = Write(files, open(Top.full_filename), to_yaml(ret))
    /\ Return(None)
    /\ Quiet /\ SameEnv
    /\ UNCHANGED <<initial_tree, tree, depth0, walks, source_dir, got, other>>

\* the files beside the sources: a Python module with its exports (what
\* get_exports returns for it) and YAMLpp files with their parsed trees
MODULE_FILE == SOURCE_DIR \o <<"module.py">>
ModuleVariables == ("glob" :> Host)
ModuleFilters == {"markdown"}
\* Stack.update(mapping): the bindings go to the top frame
Update(st, mapping) == [st EXCEPT ![Len(st)] = mapping @@ @]
\* the same on the stack of filter names
UpdateFilters(fs, names) == [fs EXCEPT ![Len(fs)] = @ \cup names]
FilterBound(fs, n) == \E i \in 1..Len(fs) : n \in fs[i]

\* handle_module: the exports of the module go to the top frames
handle_module ==
    /\ Running /\ Top.op = "handle_module"
    /\ LET expr == Top.entry.v IN
       IF ~RenderOk(stack, expr)
       THEN Raise("UndefinedError", "") /\ SameEnv
       ELSE LET filename == evaluate_expression(stack, expr) IN
            IF filename.t # "str"
            THEN Raise("TypeError", "os.path.join") /\ SameEnv
            ELSE IF open(join(source_dir, filename.s)) # MODULE_FILE
            THEN Raise("FileNotFoundError", filename.s) /\ SameEnv
            ELSE /\ stack' = Update(stack, ModuleVariables)
                 /\ filters' = UpdateFilters(filters, ModuleFilters)
                 /\ Return(None)
                 /\ Quiet
    /\ SameFiles

\* lib.yaml, beside the sources
LIB_FILE == SOURCE_DIR \o <<"lib.yaml">>
\* (mutant) the imported file is read as an empty document
ImportedNothing(path) == None
\* _, data = load_yaml(full_filename)
Imported(path) == LibTree

\* handle_import: the root node of the file is processed on the current
\* stack
handle_import ==
    /\ Running /\ Top.op = "handle_import"
    /\ LET expr == Top.entry.v IN
       IF ~RenderOk(stack, expr)
       THEN Raise("UndefinedError", "")
       ELSE LET filename == evaluate_expression(stack, expr) IN
            IF filename.t # "str"
            THEN Raise("TypeError", "os.path.join")
            ELSE IF open(join(source_dir, filename.s)) # LIB_FILE
            THEN Raise("FileNotFoundError", filename.s)
            ELSE /\ Goto(PN(Imported(open(join(source_dir, filename.s)))))
                 /\ Quiet
    /\ SameEnv /\ SameFiles

\* interpreter.handle_export(entry), called by the host outside of a walk
\* (test_handle_export_all_formats)
Direct == [op |-> "direct"]
DirectEntry ==
    KV(".export", Map(<<KV(".filename", Str("export.yaml")), KV(".content", Payload)>>))
export_direct ==
    /\ status # "running"
    /\ kont' = <<Handler("handle_export", DirectEntry), Direct>>
    /\ ret' = Pending
    /\ status' = "running"
    /\ UNCHANGED err
    /\ SameEnv /\ SameFiles
export_direct_done ==
    /\ Running /\ Top.op = "direct" /\ ret.t # "pending"
    /\ kont' = <<>>
    /\ ret' = Pending
    /\ status' = "done"
    /\ UNCHANGED err
    /\ SameEnv /\ SameFiles

NextOver(programs) ==
    \/ \E p \in programs : load(p)
    \/ render_tree
    \/ render_tree_done
    \/ process_node_scalar
    \/ process_node_dict
    \/ get_scope
    \/ process_node_push
    \/ process_node_key
    \/ process_node_collect
    \/ process_node_exit
    \/ process_node_list
    \/ handle_do
    \/ handle_foreach_values
    \/ handle_foreach_item
    \/ handle_foreach_pop
    \/ handle_function
    \/ handle_call

Next == NextOver(Programs)
Spec == Init /\ [][Next]_vars

\* source trees that fire every step of NextOver
Basics == {DynForeachProg(1, 2), ListProg(1)}

\* .export with file names inside and outside of the source directory
PathPrograms ==
    Basics \cup {ExportProg(f, ".content", "") :
                    f \in {"export.yaml", "../export.yaml", "/tmp/export.yaml"}}
\* .export with each format, given by .format or by the extension alone
FormatPrograms ==
    Basics \cup {ExportProg(ExportName(f), ".content", f) : f \in FILE_FORMATS}
           \cup {ExportProg("export.json", ".content", "")}
\* .export with the payload under each alias
PayloadKeys == {".do", ".content"}
AliasPrograms ==
    Basics \cup {ExportProg("export.yaml", key, "") : key \in PayloadKeys}
\* .switch, .if, and an unbound name in each position
ControlPrograms ==
    Basics \cup {ExportProg("export.yaml", ".content", "")}
           \cup {SwitchProg(p[1], p[2]) : p \in {"a", "c"} \X BOOLEAN}
           \cup {IfProg(c) : c \in {0, 1}}
           \cup {UndefProg(w) : w \in UndefPositions}
\* two source files with different renderings
CachePrograms == Basics \cup {ListProg(2)}

\* source trees that also hold .export
ExportNext(programs) ==
    \/ NextOver(programs)
    \/ handle_export
    \/ handle_export_write
PathSpec == Init /\ [][ExportNext(PathPrograms)]_vars
FormatSpec == Init /\ [][ExportNext(FormatPrograms)]_vars
AliasSpec == Init /\ [][ExportNext(AliasPrograms)]_vars

\* ... and .switch and .if
ControlNext ==
    \/ ExportNext(ControlPrograms)
    \/ handle_switch
    \/ handle_if
ControlSpec == Init /\ [][ControlNext]_vars

\* source trees that load a Python module
ModulePrograms == Basics \cup {ModuleProg(how) : how \in ModuleFrames}
ModuleNext ==
    \/ NextOver(ModulePrograms)
    \/ handle_module
ModuleSpec == Init /\ [][ModuleNext]_vars

\* loads with validation, of trees that match the schema and of one that
\* does not; the caller renders with dump() or reads `tree`
ValidateNext ==
    \/ NextOver(Basics)
    \/ \E p \in Basics \cup {InvalidProg} : load_validate(p)
    \/ tree_get
ValidateSpec == Init /\ [][ValidateNext]_vars

\* mappings whose keys give results of several kinds
CombinePrograms == Basics \cup {MixProg(kinds) : kinds \in MixKinds}
CombineNext ==
    \/ NextOver(CombinePrograms)
    \/ handle_if
CombineSpec == Init /\ [][CombineNext]_vars

\* source trees that import a YAMLpp file
ImportPrograms == Basics \cup {ImportProg(v) : v \in {1, 2}}
ImportNext ==
    \/ NextOver(ImportPrograms)
    \/ handle_import
ImportSpec == Init /\ [][ImportNext]_vars

\* an interpreter made with a source directory, and handle_export called
\* on it by the host
SourceDirNext ==
    \/ NextOver(Basics)
    \/ export_direct
    \/ export_direct_done
    \/ handle_export
    \/ handle_export_write
SourceDirSpec == InitWithDir /\ [][SourceDirNext]_vars

\* the caller also reads the property `tree`
CacheNext ==
    \/ NextOver(CachePrograms)
    \/ tree_get
CacheSpec == Init /\ [][CacheNext]_vars

-----------------------------------------------------------------------------
(* The filters quote and dequote, applied by the host to a value.  A      *)
(* Python string is a sequence of characters here, so that prefixes,      *)
(* comments and literals are what they are in Python.                     *)

StrLen == 4
Chars == {"#", "!", "1", "'", "x"}
Strings == UNION {[1..n -> Chars] : n \in 0..StrLen}
PyStr(cs) == [t |-> "str", chars |-> cs]
\* the values the host passes that are not strings
NonStrings == {None, Num(1), List(<<>>)}

\* the literal sentinel "#!literal", written by its first two characters
LITERAL_PREFIX == <<"#", "!">>
startswith(cs, prefix) ==
    /\ Len(cs) >= Len(prefix)
    /\ SubSeq(cs, 1, Len(prefix)) = prefix

\* the Python tokenizer on these characters: numbers, names, '...' and
\* '''...''' strings, a comment from # to the end, anything else is bad
Quote3(cs, j) == j + 2 <= Len(cs) /\ cs[j] = "'" /\ cs[j + 1] = "'" /\ cs[j + 2] = "'"
RunEnd(cs, set) ==
    IF \E j \in 1..Len(cs) : cs[j] \notin set
    THEN (CHOOSE j \in 1..Len(cs) :
              cs[j] \notin set /\ \A h \in 1..(j - 1) : cs[h] \in set) - 1
    ELSE Len(cs)
Repunit(n) == (10 ^ n - 1) \div 9
RECURSIVE Tokens(_)
Tokens(cs) ==
    IF cs = <<>> \/ Head(cs) = "#" THEN <<>>
    ELSE IF Head(cs) = "!" THEN <<[tok |-> "bad"]>>
    ELSE IF Quote3(cs, 1)
    THEN IF \E j \in 4..Len(cs) : Quote3(cs, j)
         THEN LET j == CHOOSE j \in 4..Len(cs) :
                           Quote3(cs, j) /\ \A h \in 4..(j - 1) : ~Quote3(cs, h) IN
              <<[tok |-> "string", chars |-> SubSeq(cs, 4, j - 1)]>>
                  \o Tokens(SubSeq(cs, j + 3, Len(cs)))
         ELSE <<[tok |-> "bad"]>>
    ELSE IF Head(cs) = "'"
    THEN IF \E j \in 2..Len(cs) : cs[j] = "'"
         THEN LET j == CHOOSE j \in 2..Len(cs) :
                           cs[j] = "'" /\ \A h \in 2..(j - 1) : cs[h] # "'" IN
              <<[tok |-> "string", chars |-> SubSeq(cs, 2, j - 1)]>>
                  \o Tokens(SubSeq(cs, j + 1, Len(cs)))
         ELSE <<[tok |-> "bad"]>>
    ELSE IF Head(cs) = "1"
    THEN LET j == RunEnd(cs, {"1"}) IN
         IF j < Len(cs) /\ cs[j + 1] = "x"
         THEN <<[tok |-> "bad"]>>
         ELSE <<[tok |-> "number", n |-> Repunit(j)]>> \o Tokens(SubSeq(cs, j + 1, Len(cs)))
    ELSE LET j == RunEnd(cs, {"x", "1"}) IN
         <<[tok |-> "name"]>> \o Tokens(SubSeq(cs, j + 1, Len(cs)))

RECURSIVE Concat(_)
Concat(toks) == IF toks = <<>> THEN <<>> ELSE Head(toks).chars \o Concat(Tail(toks))

\* ast.literal_eval(source)
literal_eval(cs) ==
    LET toks == Tokens(cs) IN
    IF toks = <<>> \/ \E i \in 1..Len(toks) : toks[i].tok = "bad"
    THEN Raised("SyntaxError")
    ELSE IF \A i \in 1..Len(toks) : toks[i].tok = "string"
    THEN PyStr(Concat(toks))
    ELSE IF Len(toks) > 1 THEN Raised("SyntaxError")
    ELSE IF toks[1].tok = "number" THEN Num(toks[1].n)
    ELSE Raised("ValueError")
ValidLiteral(cs) == literal_eval(cs).t # "raise"

\* quote(value) that prefixes the sentinel whatever the value starts with
quote_always(value) ==
    IF value.t # "str" THEN Raised("TypeError")
    ELSE PyStr(LITERAL_PREFIX \o value.chars)
\* quote(value)
quote(value) ==
    IF value.t # "str" THEN Raised("TypeError")
    ELSE IF startswith(value.chars, LITERAL_PREFIX) THEN value
    ELSE PyStr(LITERAL_PREFIX \o value.chars)
\* dequote(jinja2_result)
dequote(jinja2_result) ==
    IF jinja2_result.t # "str" THEN Raised("ValueError")
    ELSE literal_eval(jinja2_result.chars)

\* the expression the host evaluates: filters applied to a value,
\* innermost first
Apply(names, value) == [t |-> "apply", filters |-> names, value |-> value]
Pipelines == {<<"quote">>, <<"quote", "quote">>, <<"dequote">>, <<"quote", "dequote">>}
Filter(name) == [op |-> name]

FilterInit ==
    /\ initial_tree \in {Apply(names, value) :
            names \in Pipelines, value \in {PyStr(cs) : cs \in Strings} \cup NonStrings}
    /\ stack = <<>>
    /\ filters = <<>>
    /\ kont = <<>>
    /\ ret = Pending
    /\ status = "new"
    /\ err = NoError
    /\ tree = None
    /\ depth0 = 0
    /\ walks = 0
    /\ source_dir = CWD
    /\ files = <<>>
    /\ got = Pending
    /\ other = Fresh

\* the host starts evaluating the expression: the value goes to the
\* innermost filter
filter_start ==
    /\ status = "new"
    /\ kont' = [i \in 1..Len(initial_tree.filters) |-> Filter(initial_tree.filters[i])]
    /\ ret' = initial_tree.value
    /\ status' = "running"
    /\ UNCHANGED err
    /\ SameEnv /\ SameFiles

\* a filter returns `result` to the next one, or raises
FilterReturn(result) ==
    IF result.t = "raise"
    THEN Raise(result.type, "")
    ELSE /\ kont' = Tail(kont)
         /\ ret' = result
         /\ status' = IF Tail(kont) = <<>> THEN "done" ELSE "running"
         /\ UNCHANGED err

quote_filter ==
    /\ Running /\ Top.op = "quote"
    /\ FilterReturn(quote(ret))
    /\ SameEnv /\ SameFiles

dequote_filter ==
    /\ Running /\ Top.op = "dequote"
    /\ FilterReturn(dequote(ret))
    /\ SameEnv /\ SameFiles

FilterNext ==
    \/ filter_start
    \/ quote_filter
    \/ dequote_filter
FilterSpec == FilterInit /\ [][FilterNext]_vars

-----------------------------------------------------------------------------
(* flatten on trees.  The keys of a mapping are nodes here, because a     *)
(* ruamel mapping may have keys that are not strings.                     *)

ScalarStr(s) == [t |-> "ScalarString", s |-> s]
\* an object that is no scalar, mapping or sequence, with what str() gives
Obj(s) == [t |-> "object", str |-> s]
CommentedMap(items) == [t |-> "CommentedMap", items |-> items]
CommentedSeq(items) == [t |-> "CommentedSeq", items |-> items]

\* str(k) of a mapping key
str(k) ==
    IF k.t \in {"str", "ScalarString"} THEN Str(k.s)
    ELSE IF k.t = "int" THEN Str(IF k.v = 1 THEN "1" ELSE "2")
    ELSE IF k.t = "none" THEN Str("None")
    ELSE Str(k.str)

\* {key(k): v for k, v in items}: a key that comes again keeps its place
\* and takes the later value
RECURSIVE DictOf(_)
DictOf(items) ==
    IF items = <<>> THEN <<>>
    ELSE LET front == DictOf(SubSeq(items, 1, Len(items) - 1))
             last == items[Len(items)] IN
         IF \E i \in 1..Len(front) : front[i].k = last.k
         THEN [i \in 1..Len(front) |-> IF front[i].k = last.k THEN last ELSE front[i]]
         ELSE Append(front, last)

IsScalar(node) == node.t \in {"str", "int", "none"}
IsMapping(node) == node.t \in {"CommentedMap", "dict"}
IsSequence(node) == node.t \in {"CommentedSeq", "list"}

\* flatten that leaves the keys of a mapping as they are
RECURSIVE flatten_keys_kept(_)
flatten_keys_kept(node) ==
    IF node.t = "ScalarString" THEN Str(node.s)
    ELSE IF IsScalar(node) THEN node
    ELSE IF IsMapping(node)
    THEN Map(DictOf([i \in 1..Len(node.items) |->
                        KV(node.items[i].k, flatten_keys_kept(node.items[i].v))]))
    ELSE IF IsSequence(node)
    THEN List([i \in 1..Len(node.items) |-> flatten_keys_kept(node.items[i])])
    ELSE Str(node.str)

\* flatten(node)
RECURSIVE flatten(_)
flatten(node) ==
    IF node.t = "ScalarString" THEN Str(node.s)
    ELSE IF IsScalar(node) THEN node
    ELSE IF IsMapping(node)
    THEN Map(DictOf([i \in 1..Len(node.items) |->
                        KV(str(node.items[i].k), flatten(node.items[i].v))]))
    ELSE IF IsSequence(node)
    THEN List([i \in 1..Len(node.items) |-> flatten(node.items[i])])
    ELSE Str(node.str)

\* only plain mappings with string keys, plain lists and scalars
RECURSIVE Plain(_)
Plain(node) ==
    \/ IsScalar(node)
    \/ /\ node.t = "dict"
       /\ \A i \in 1..Len(node.items) :
              node.items[i].k.t = "str" /\ Plain(node.items[i].v)
    \/ /\ node.t = "list"
       /\ \A i \in 1..Len(node.items) : Plain(node.items[i])

\* the trees flatten is given: leaves, containers of leaves, and
\* containers of those
Leaves == {ScalarStr("a"), Str("a"), Num(1), None, Obj("2001-12-14")}
Keys == {Str("a"), Str("1"), Num(1)}
KeyPairs == {<<Num(1), Str("1")>>, <<Str("a"), Num(1)>>, <<ScalarStr("a"), None>>}
Over(inner) ==
    {CommentedSeq(<<>>), CommentedMap(<<>>)}
        \cup {CommentedSeq(<<x>>) : x \in inner}
        \cup {CommentedSeq(<<x, y>>) : x \in inner, y \in Leaves}
        \cup {CommentedMap(<<KV(k, x)>>) : k \in Keys, x \in inner}
        \cup {CommentedMap(<<KV(kk[1], x), KV(kk[2], y)>>) :
                  kk \in KeyPairs, x \in Leaves, y \in Leaves}
Trees == Leaves \cup Over(Leaves) \cup Over(Over(Leaves))

FlattenInit ==
    /\ initial_tree \in {Apply(names, t) :
            names \in {<<"flatten">>, <<"flatten", "flatten">>}, t \in Trees}
    /\ stack = <<>>
    /\ filters = <<>>
    /\ kont = <<>>
    /\ ret = Pending
    /\ status = "new"
    /\ err = NoError
    /\ tree = None
    /\ depth0 = 0
    /\ walks = 0
    /\ source_dir = CWD
    /\ files = <<>>
    /\ got = Pending
    /\ other = Fresh

flatten_call ==
    /\ Running /\ Top.op = "flatten"
    /\ FilterReturn(flatten(ret))
    /\ SameEnv /\ SameFiles

FlattenNext ==
    \/ filter_start
    \/ flatten_call
FlattenSpec == FlattenInit /\ [][FlattenNext]_vars

-----------------------------------------------------------------------------
(* flatten on a graph: with anchors and aliases ruamel gives objects that *)
(* are reached along several paths, or from themselves.  Objects are      *)
(* named by numbers, a container holds the numbers of its items, and the  *)
(* recursion of flatten is the call stack.                                *)

\* sys.getrecursionlimit(), scaled down
RecursionLimit == 4
GraphIds == {1, 2, 3}
GraphNodes ==
    {Num(1), ScalarStr("a")}
        \cup {CommentedSeq(<<>>)}
        \cup {CommentedSeq(<<a>>) : a \in GraphIds}
        \cup {CommentedSeq(<<a, b>>) : a \in GraphIds, b \in GraphIds}
        \cup {CommentedMap(<<KV(Num(1), a)>>) : a \in GraphIds}
\* the object flatten is called on is number 1
Graph(objects) == [t |-> "graph", objects |-> objects]

IsContainer(node) == IsMapping(node) \/ IsSequence(node)
ItemId(node, i) == IF IsMapping(node) THEN node.items[i].v ELSE node.items[i]
Children(objects, a) ==
    IF IsContainer(objects[a])
    THEN {ItemId(objects[a], i) : i \in 1..Len(objects[a].items)}
    ELSE {}
Successors(objects, set) == set \cup UNION {Children(objects, a) : a \in set}
\* the objects reached from `a` in one step or more
ReachedFrom(objects, a) ==
    Successors(objects, Successors(objects, Children(objects, a)))
\* flatten meets an object that is reached from itself
Cyclic(objects) == \E a \in {1} \cup ReachedFrom(objects, 1) : a \in ReachedFrom(objects, a)

GraphInit ==
    /\ initial_tree \in {Graph(objects) : objects \in [GraphIds -> GraphNodes]}
    /\ stack = <<>>
    /\ filters = <<>>
    /\ kont = <<>>
    /\ ret = Pending
    /\ status = "new"
    /\ err = NoError
    /\ tree = None
    /\ depth0 = 0
    /\ walks = 0
    /\ source_dir = CWD
    /\ files = <<>>
    /\ got = Pending
    /\ other = Fresh

\* one activation of flatten(node)
Flatten(a) == [op |-> "flatten", pc |-> "node", node |-> a, i |-> 1, results |-> <<>>]
Caller == [op |-> "caller"]
Object == initial_tree.objects[Top.node]
FlattenDepth == Cardinality({i \in 1..Len(kont) : kont[i].op = "flatten"})

\* the host calls flatten on object 1
flatten_graph ==
    /\ status = "new"
    /\ kont' = <<Flatten(1), Caller>>
    /\ ret' = Pending
    /\ status' = "running"
    /\ UNCHANGED err
    /\ SameEnv /\ SameFiles

\* a scalar, or an object that takes the fallback
flatten_scalar ==
    /\ At("flatten", "node") /\ ~IsContainer(Object)
    /\ Return(flatten(Object))
    /\ Quiet /\ SameEnv /\ SameFiles

\* the comprehension calls flatten on the next item; a call beyond the
\* recursion limit raises RecursionError
flatten_item ==
    /\ At("flatten", "node") /\ IsContainer(Object)
    /\ ret.t = "pending" /\ Top.i <= Len(Object.items)
    /\ IF FlattenDepth >= RecursionLimit
       THEN Raise("RecursionError", "")
       ELSE Call(Flatten(ItemId(Object, Top.i)), Top) /\ Quiet
    /\ SameEnv /\ SameFiles

\* the call returned: the comprehension keeps the result
flatten_collect ==
    /\ At("flatten", "node") /\ IsContainer(Object)
    /\ ret.t # "pending"
    /\ Goto([Top EXCEPT
                !.i = @ + 1,
                !.results = Append(@, IF IsMapping(Object)
                                       THEN KV(str(Object.items[Top.i].k), ret)
                                       ELSE ret)])
    /\ Quiet /\ SameEnv /\ SameFiles

\* the comprehension is through: a plain dict or a plain list
flatten_return ==
    /\ At("flatten", "node") /\ IsContainer(Object)
    /\ ret.t = "pending" /\ Top.i > Len(Object.items)
    /\ Return(IF IsMapping(Object) THEN Map(DictOf(Top.results)) ELSE List(Top.results))
    /\ Quiet /\ SameEnv /\ SameFiles

\* the host has the flattened tree
flatten_done ==
    /\ Running /\ Top.op = "caller" /\ ret.t # "pending"
    /\ kont' = <<>>
    /\ status' = "done"
    /\ UNCHANGED <<ret, err>>
    /\ SameEnv /\ SameFiles

GraphNext ==
    \/ flatten_graph
    \/ flatten_scalar
    \/ flatten_item
    \/ flatten_collect
    \/ flatten_return
    \/ flatten_done
GraphSpec == GraphInit /\ [][GraphNext]_vars
GraphFairSpec == GraphSpec /\ WF_vars(GraphNext)

\* the tree a graph without a cycle stands for
RECURSIVE Unfold(_, _)
Unfold(objects, a) ==
    LET node == objects[a] IN
    IF IsMapping(node)
    THEN CommentedMap([i \in 1..Len(node.items) |->
                          KV(node.items[i].k, Unfold(objects, node.items[i].v))])
    ELSE IF IsSequence(node)
    THEN CommentedSeq([i \in 1..Len(node.items) |-> Unfold(objects, node.items[i])])
    ELSE node
\* the recursion step by step gives what flatten gives on the tree
FlattenAgrees ==
    initial_tree.t = "graph" /\ status = "done"
        => ret = flatten(Unfold(initial_tree.objects, 1))
\* every call of flatten comes to an end
FlattenTerminates == <>(status \in {"done", "error"})

\* two Interpreter instances: the one that acts is in the variables, the
\* one that waits is in `other`.  The host passes from one to the other
\* between any two steps, also in mid-walk.
switch ==
    /\ initial_tree' = other.initial_tree
    /\ stack' = other.stack
    /\ filters' = other.filters
    /\ kont' = other.kont
    /\ ret' = other.ret
    /\ status' = other.status
    /\ err' = other.err
    /\ tree' = other.tree
    /\ depth0' = other.depth0
    /\ walks' = other.walks
    /\ source_dir' = other.source_dir
    /\ got' = other.got
    /\ other' = Self
    /\ UNCHANGED files

\* a program that binds f and calls it, one that only calls f, and one
\* that loads a module at top level
CallsFProg == Test(<<One(CallOf("f", <<>>))>>)
TopModuleProg == Map(<<KV(".module", Str("module.py")), KV("used", Num(1))>>)
IsolationPrograms == {FnFirstProg(1), CallsFProg, TopModuleProg}
\* each instance loads one program
IsolationNext ==
    \/ \E p \in IsolationPrograms : status = "new" /\ load(p)
    \/ switch
    \/ render_tree
    \/ render_tree_done
    \/ process_node_dict
    \/ process_node_scalar
    \/ process_node_key
    \/ process_node_collect
    \/ process_node_exit
    \/ handle_do
    \/ handle_function
    \/ handle_call
    \/ handle_module
IsolationSpec == Init /\ [][IsolationNext]_vars

\* a function called with a, then with b, then with a again
RepeatProg(a, b) ==
    Test(<<One(Function("add", <<"a", "b">>, Value(<<"a", "b">>))),
           One(CallOf("add", <<Num(a), Num(1)>>)),
           One(CallOf("add", <<Num(b), Num(1)>>)),
           One(CallOf("add", <<Num(a), Num(1)>>))>>)
RepeatPrograms == Basics \cup {RepeatProg(a, b) : a \in {1, 2}, b \in {1, 2}}
CallSpec == Init /\ [][NextOver(RepeatPrograms)]_vars

-----------------------------------------------------------------------------
(* util.serialize and util.deserialize, called by the host.               *)

\* an exception object that is a value, not a raised exception
ExceptionObject(type) == [t |-> "exception", type |-> type]
\* CONV_FORMATS[format](tree): YAML is dumped as it is, the other formats
\* are flattened first; TOML takes a mapping only
Convert(format, node) ==
    IF format = "yaml" THEN Text("yaml", node)
    ELSE IF format = "toml" /\ flatten(node).t # "dict" THEN Raised("TypeError")
    ELSE Text(format, flatten(node))
\* serialize(tree, format)
serialize(node, format) ==
    LET fmt == NormalFormat(format) IN
    IF fmt \notin FILE_FORMATS
    THEN ExceptionObject("ValueError")
    ELSE Convert(fmt, node)

SerializeTrees ==
    {CommentedMap(<<KV(Str("a"), Num(1))>>),
     CommentedMap(<<KV(Num(1), CommentedSeq(<<ScalarStr("a")>>))>>),
     CommentedSeq(<<Num(1), Str("a")>>),
     Str("a")}
Arguments(first, format) == [t |-> "args", first |-> first, format |-> format]
SerializeInit ==
    /\ initial_tree \in
          {Apply(<<"serialize">>, Arguments(node, f)) :
               node \in SerializeTrees, f \in FormatNames}
          \cup {Apply(<<"deserialize">>, Arguments(Text(g, flatten(node)), f)) :
               node \in SerializeTrees, g \in FILE_FORMATS, f \in FormatNames}
    /\ stack = <<>>
    /\ filters = <<>>
    /\ kont = <<>>
    /\ ret = Pending
    /\ status = "new"
    /\ err = NoError
    /\ tree = None
    /\ depth0 = 0
    /\ walks = 0
    /\ source_dir = CWD
    /\ files = <<>>
    /\ got = Pending
    /\ other = Fresh

\* the call returns `result` to the host, or raises
HostReturn(result) ==
    IF "t" \in DOMAIN result /\ result.t = "raise"
    THEN Raise(result.type, "")
    ELSE /\ kont' = <<>>
         /\ ret' = result
         /\ status' = "done"
         /\ UNCHANGED err

serialize_call ==
    /\ Running /\ Top.op = "serialize"
    /\ HostReturn(serialize(ret.first, ret.format))
    /\ SameEnv /\ SameFiles

deserialize_call ==
    /\ Running /\ Top.op = "deserialize"
    /\ HostReturn(deserialize(ret.first, ret.format))
    /\ SameEnv /\ SameFiles

SerializeNext ==
    \/ filter_start
    \/ serialize_call
    \/ deserialize_call
SerializeSpec == SerializeInit /\ [][SerializeNext]_vars

TypeOK ==
    /\ status \in {"new", "loaded", "rejected", "running", "done", "error"}
    /\ (kont # <<>>) = (status = "running")
    /\ walks \in 0..MaxWalks

----------------------------------------------------------------------------
(* Observations used by the properties.                                    *)

\* the walk is about to evaluate the template "{{ name }}" found under `key`
Evaluates(key, name) ==
    /\ At("process_node", "entry") /\ Top.node = Tpl(<<name>>)
    /\ Len(kont) >= 2 /\ kont[2].op = "process_node" /\ kont[2].pc = "wait"
    /\ kont[2].node.items[kont[2].i].k = key
\* ... and the evaluation yields v
Yields(v) == RenderOk(stack, Top.node) /\ evaluate_expression(stack, Top.node) = v

Item(l, i) == l.items[i]
\* result.key of a rendered mapping (None for anything else)
Field(v, key) == IF v.t = "dict" THEN Get(v, key) ELSE None
Small == {1, 2}

----------------------------------------------------------------------------
(* Properties.                                                             *)

\* C1: when a walk has terminated, with a result or with an error, as many
\* frames were popped as were pushed: the scope stack is as deep as it was
\* when the walk started.
C1_PushesEqualPops ==
    status \in {"done", "error"} => Len(stack) = depth0

\* C2: a free name of a function body resolves against the stack of the
\* definition: a frame pushed at the call site (by .context or by .foreach)
\* that binds the same name does not change the value the body sees.
C2_BodySeesDefinitionScope ==
    \A a, b \in Small :
        (initial_tree \in {DynProg(a, b), DynForeachProg(a, b)}
         /\ Evaluates("value", "x")) => Yields(Num(a))

\* C3: late binding.  In [.context {x:10}, .function get_x, .define {x:999},
\* .call get_x] the walk succeeds and the body of get_x sees x = 999.
C3_LateBinding ==
    initial_tree = LateProg(10, 999) =>
        /\ status # "error"
        /\ Evaluates("value", "x") => Yields(Num(999))

\* C4: in a .do, what child i introduces (.function, .define) is visible to
\* a later child and to no earlier child: a .call before the .function
\* fails, a .call after it succeeds, a reference after a .define sees it.
C4_DoOrder ==
    /\ initial_tree = FnFirstProg(1) => status # "error"
    /\ initial_tree = CallFirstProg(1) =>
           /\ status # "done"
           /\ status = "error" => (err.type = "KeyNotFound" /\ err.message = "f")
    /\ initial_tree = DefineProg(7) =>
           /\ status # "error"
           /\ Evaluates("value", "x") => Yields(Num(7))

\* C5: a function declared in the body of another function is not visible
\* outside the outer call, whatever the arity of the outer function, called
\* or not: the .call of the inner name from outside fails with KeyNotFound
\* "'inner' not found".
C5_NestedInvisible ==
    \A formals \in {<<>>, <<"y">>}, callOuter \in BOOLEAN :
        initial_tree = NestedProg(formals, callOuter) =>
            /\ status # "done"
            /\ status = "error" =>
                   (err.type = "KeyNotFound" /\ err.message = "inner")

\* C6: an argument that shadows an outer binding is what the body sees
\* during the call, and after the call the caller sees the outer binding.
C6_ArgumentsShadow ==
    \A a \in {5, 42} :
        /\ initial_tree \in {ShadowProg(5, a), ShadowAfterProg(5, a)} =>
               /\ status # "error"
               /\ Evaluates("value", "x") => Yields(Num(a))
        /\ (initial_tree = ShadowAfterProg(5, a) /\ Evaluates("after", "x")) =>
               Yields(Num(5))
C6_Witness ==
    /\ initial_tree = ShadowAfterProg(5, 42)
    /\ Evaluates("after", "x")
    /\ Len(stack) = depth0 + 1

\* C7: a .context key pushes exactly one frame for the duration of its
\* mapping, also when its child mapping is empty: while the keys of the root
\* mapping are evaluated the stack is one frame deeper than before, and a
\* function defined by a sibling of .context is gone after the mapping.
C7_ContextAlwaysPushes ==
    /\ (/\ Running /\ Len(kont) = 2 /\ Top.op = "process_node"
        /\ Top.node.t = "dict" /\ Top.pc \in {"loop", "wait"}
        /\ HasKey(Top.node, ".context"))
           => Len(stack) = depth0 + 1
    /\ \A b \in {<<>>, <<KV("x", Num(1))>>} :
           initial_tree = CtxProg(b) => status # "done"

\* C8: .context is processed before all other keys wherever it is written:
\* every sibling sees its bindings, the other keys keep their order, and
\* .context contributes nothing to the output.
C8_ContextFirst ==
    \A pos \in {1, 2, 3}, v \in Small :
        initial_tree = PosProg(pos, v, 2) =>
            /\ status # "error"
            /\ \A key \in {"k1", "k2"} : Evaluates(key, "x") => Yields(Num(v))
            /\ status = "done" =>
                   Get(tree, "test") = Map(<<KV("k1", Num(v)), KV("k2", Num(v))>>)
C8_Witness ==
    /\ initial_tree = PosProg(3, 1, 2)
    /\ status = "done"
    /\ Get(tree, "test") = Map(<<KV("k1", Num(1)), KV("k2", Num(1))>>)

\* C9: once the environment has been reset, during and after every walk,
\* the frames that _reset_environment set up are on the stack: no handler
\* pops them.
C9_BaseFrameStays ==
    status # "new" =>
        /\ Len(stack) >= Len(ResetGlobals)
        /\ stack[1] = JINJA_GLOBALS
        /\ DOMAIN GLOBAL_CONTEXT \subseteq DOMAIN stack[2]
        /\ Len(filters) >= Len(ResetFilters)
C9_Witness ==
    /\ initial_tree = RootCtxProg(<<KV("x", Num(1))>>)
    /\ status = "done"
    /\ Len(stack) = Len(ResetGlobals)

\* C10: a None returned by a handler leaves no entry in the enclosing
\* sequence: for .do: [.function add, .call add(3,4), .call add(3,5)] the
\* rendered test[0].value is 7 and test[1].value is 8.
C10_NoneIsDropped ==
    (initial_tree = AddProg(3, 4, 5) /\ status = "done") =>
        /\ Get(tree, "test").t = "list"
        /\ Field(Item(Get(tree, "test"), 1), "value") = Num(7)
        /\ Field(Item(Get(tree, "test"), 2), "value") = Num(8)


\* the .call entry that handle_call is about to act on, and its .name
CallEntry == Top.entry
CallName == Get(CallEntry.v, ".name").s
CallPending == Running /\ Top.op = "handle_call" /\ EntryHas(CallEntry, ".name")

C12_BadArgumentsFail ==
    [][(/\ CallPending /\ Bound(stack, CallName)
        /\ Lookup(stack, CallName).t = "dict"
        /\ HasKey(Lookup(stack, CallName), ".args")
        /\ Get(Lookup(stack, CallName), ".args").t = "list"
        /\ EntryHas(CallEntry, ".args")
        /\ \/ Get(CallEntry.v, ".args").t # "list"
           \/ Len(Get(CallEntry.v, ".args").items)
                # Len(Get(Lookup(stack, CallName), ".args").items))
       => /\ status' = "error"
          /\ err'.type = "ArgumentMismatch"
          /\ kont' = <<>>
          /\ stack' = stack]_vars

\* C13: a .foreach whose body yields one node per evaluation returns one
\* entry per element of the iterable, in iteration order, the i-th computed
\* with the loop variable bound to the i-th element: while the loop runs it
\* has collected exactly one entry per element consumed, and for
\* .values: [i, xs] with the body {value: "{{ i }}"} the rendered sequence
\* is [{value: xs[1]}, {value: xs[2]}, ...]; for an empty xs nothing is
\* rendered under the key.
C13_ForeachInOrder ==
    /\ \A k \in 1..Len(kont) :
          (kont[k].op = "handle_foreach" /\ kont[k].pc \in {"loop", "body"}) =>
              Len(kont[k].results) = kont[k].i - 1
    /\ \A xs \in ForeachInputs :
          (initial_tree = ForeachSeqProg(xs) /\ status = "done") =>
              Field(tree, "test") =
                  IF xs = <<>> THEN None
                  ELSE List([j \in 1..Len(xs) |-> One(KV("value", Num(xs[j])))])
C13_Witness ==
    /\ initial_tree = ForeachSeqProg(<<2, 1>>)
    /\ status = "done"
    /\ Field(tree, "test") = List(<<One(KV("value", Num(2))), One(KV("value", Num(1)))>>)

\* C14: a .foreach that is the only content of a key and whose body is a
\* one-key mapping with a templated key renders under that key as one
\* mapping with one rendered key per element: for the services api and
\* worker, services is {api: {image: api}, worker: {image: worker}}.
C14_ForeachMergesRenderedKeys ==
    (initial_tree = ServicesProg(<<"api", "worker">>) /\ status = "done") =>
        Field(tree, "services") =
            Map(<<KV("api", One(KV("image", Str("api")))),
                  KV("worker", One(KV("image", Str("worker"))))>>)

\* C15: the file that .export writes never lies outside of the source
\* directory, whatever .filename is (with ".." components, or absolute):
\* every file written is below source_dir.
C15_ExportStaysInSourceDir ==
    \A path \in DOMAIN files : Under(source_dir, path)

\* the rendering of ListProg(v)
ListRendering(v) == One(KV("test", List(<<Num(v), Num(v + 1)>>)))

\* C16: the rendered tree is cached between loads and invalidated by a
\* load: what a read of `tree` returns is the rendering of the source
\* loaded last, and a read that follows a walk of that source and finds
\* its rendering starts no walk.
C16_CacheInvalidatedByLoad ==
    /\ [](\A v \in {1, 2} :
            (initial_tree = ListProg(v) /\ got.t # "pending") =>
                got = ListRendering(v))
    /\ [][(/\ status # "running" /\ walks > 0 /\ Cached(tree)
           /\ got' # got /\ got'.t # "pending")
          => (walks' = walks /\ status' = status /\ got' = tree)]_vars

\* C17: .export writes the payload in the format named by .format, or by
\* the extension of the file name when .format is absent: deserialize, in
\* that format, of the file written gives the payload back, for yaml, json,
\* toml and python; and the rendered tree has no node for .export.
C17_ExportRoundTrip ==
    \A f \in FILE_FORMATS : \A format \in {f, ""} :
        (initial_tree = ExportProg(ExportName(f), ".content", format)
         /\ status = "done") =>
            LET path == SOURCE_DIR \o <<ExportName(f)>> IN
            /\ path \in DOMAIN files
            /\ deserialize(files[path], f) = Payload
            /\ tree = One(KV("kept", Num(1)))

\* C18: the payload of .export is accepted under .do and under .content
\* alike: with either key the walk ends without an error and the same file
\* is written, the serialized payload.
C18_PayloadAliases ==
    \A key \in PayloadKeys :
        (initial_tree = ExportProg("export.yaml", key, "")
         /\ status \in {"done", "error"}) =>
            LET path == SOURCE_DIR \o <<"export.yaml">> IN
            /\ status = "done"
            /\ path \in DOMAIN files
            /\ files[path] = to_yaml(Payload)

\* C19: a .switch with .default beside .cases evaluates exactly one branch:
\* the case whose key equals the value of .expr, else .default, else
\* nothing; the branch of another case is never evaluated.  For the cases a
\* and b (b cannot be evaluated) the rendering under x = a is the branch a,
\* under x = c it is the .default branch, or nothing when there is none.
C19_SwitchOneBranch ==
    \A x \in {"a", "c"} : \A default \in BOOLEAN :
        initial_tree = SwitchProg(x, default) =>
            /\ ~(Running /\ Top.op = "process_node" /\ Top.node = Tpl(<<"nope">>))
            /\ status # "error"
            /\ status = "done" =>
                  Field(tree, "test") =
                      IF x = "a" THEN One(KV("chosen", Str("a")))
                      ELSE IF default THEN One(KV("chosen", Str("default")))
                      ELSE None

\* C20: a template that references a name bound in no frame aborts the walk
\* with the UndefinedName error raised on a node (the one whose line it
\* reports), the same wherever the template stands: a plain scalar, the
\* iterable of .foreach, the condition of .if, the expression of .switch,
\* the file name of .export.
C20_UndefinedNameEverywhere ==
    \A where \in UndefPositions :
        (initial_tree = UndefProg(where) /\ status \in {"done", "error"}) =>
            /\ status = "error"
            /\ err.type = "UndefinedName"
            /\ err.node # None

\* C21: what a .module adds is scoped to the frame that was on top when it
\* ran, variables and filters together: at every moment the module's
\* variables are visible exactly when its filters are, and once the walk
\* has left the frame (pushed by .context, by a .call or by a .foreach
\* iteration) neither is visible.
C21_ModuleScopedTogether ==
    \A how \in ModuleFrames :
        initial_tree = ModuleProg(how) =>
            /\ Bound(stack, "glob") <=> FilterBound(filters, "markdown")
            /\ status = "done" =>
                  ~Bound(stack, "glob") /\ ~FilterBound(filters, "markdown")

\* C22: a load with validation that finds an error aborts the evaluation
\* of that tree: the failing load leaves the interpreter's tree and
\* environment as they were, and no later dump() or read of `tree`
\* evaluates the rejected tree.
C22_RejectedTreeNotEvaluated ==
    /\ [][status' = "rejected" =>
             UNCHANGED <<initial_tree, stack, filters>>]_vars
    /\ [](status = "running" => Valid(initial_tree))

\* C23: the results of the keys of a mapping are combined by kind: when a
\* key gave a mapping, the result is the merge of the mapping results in
\* key order, a later key overriding an earlier equal one, and the sequence
\* and scalar results are dropped; when there are only sequence and scalar
\* results it is their concatenation in key order; when there is no result
\* the mapping yields nothing.
C23_MappingWinsOverList ==
    \A kinds \in MixKinds :
        (initial_tree = MixProg(kinds) /\ status \in {"done", "error"}) =>
            /\ status = "done"
            /\ Field(tree, "test") =
                  CASE kinds \in {"both", "mappings"} ->
                          Map(<<KV("a", Num(2)), KV("b", Num(3))>>)
                    [] kinds = "lists" -> List(<<Num(1), Num(2), Num(3), Num(4)>>)
                    [] kinds = "nothing" -> None
C23_Witness ==
    /\ initial_tree = MixProg("both")
    /\ status = "done"
    /\ Field(tree, "test") = Map(<<KV("a", Num(2)), KV("b", Num(3))>>)

\* the .function entry that handle_function is about to act on
DefPending == Running /\ Top.op = "handle_function" /\ EntryHas(Top.entry, ".name")
DefName == Get(Top.entry.v, ".name").s

\* C24: a .function definition does not evaluate its body: the step binds
\* the block under .name in the top frame and returns nothing to the
\* enclosing node; the stack is as deep as before, every other binding is
\* as before, and no error is raised, also when the body references names
\* that are bound nowhere.
C24_DefinitionOnlyBinds ==
    [][DefPending =>
          /\ status' = "running"
          /\ kont' = Tail(kont)
          /\ ret' = None
          /\ Len(stack') = Len(stack)
          /\ DOMAIN stack'[Len(stack)] = DOMAIN stack[Len(stack)] \cup {DefName}
          /\ stack'[Len(stack)][DefName] = Top.entry.v
          /\ \A i \in 1..Len(stack) : \A n \in DOMAIN stack[i] :
                (i # Len(stack) \/ n # DefName) =>
                    (n \in DOMAIN stack'[i] /\ stack'[i][n] = stack[i][n])]_vars
\* add is defined while a and b, which its body adds, are bound nowhere
C24_Witness ==
    /\ initial_tree = AddProg(3, 4, 5)
    /\ status = "running"
    /\ Bound(stack, "add") /\ ~Bound(stack, "a") /\ ~Bound(stack, "b")
    /\ Get(Lookup(stack, "add"), ".do") = Value(<<"a", "b">>)
    /\ ret = None

\* C25: .import is inclusion on the current stack: the step continues as
\* process_node of the root node of the file, with the stack as it is, so
\* a name bound by the importer is seen inside the file, a function
\* defined at the top level of the file can be called by a later sibling
\* of the .import, and the stack is as deep after the walk as before.
C25_ImportIsInclusion ==
    /\ [][(Running /\ Top.op = "handle_import"
           /\ RenderOk(stack, Top.entry.v)
           /\ evaluate_expression(stack, Top.entry.v) = Str("lib.yaml")) =>
             /\ kont' = <<PN(LibTree)>> \o Tail(kont)
             /\ stack' = stack /\ filters' = filters
             /\ status' = "running"]_vars
    /\ [](\A v \in Small :
            (initial_tree = ImportProg(v) /\ status \in {"done", "error"}) =>
                /\ status = "done"
                /\ Len(stack) = depth0
                /\ Field(tree, "test") =
                      List(<<One(KV("seen", Num(v))), One(KV("value", Num(1)))>>))
C25_Witness ==
    /\ initial_tree = ImportProg(2)
    /\ status = "done"
    /\ Field(tree, "test") = List(<<One(KV("seen", Num(2))), One(KV("value", Num(1)))>>)

\* C26: an interpreter made with a source directory and no file has that
\* directory as its source directory until a load, and handle_export
\* called on it writes below that directory: it ends without an error and
\* the file is there.
C26_GivenSourceDirIsUsed ==
    initial_tree = None =>
        /\ source_dir = GIVEN_DIR
        /\ status \in {"done", "error"} =>
              /\ status = "done"
              /\ (GIVEN_DIR \o <<"export.yaml">>) \in DOMAIN files

\* C27: dequote undoes quote up to literal parsing: for a string s that is
\* a valid literal, dequote(quote(s)) ends without an error and gives
\* literal_eval(s).
C27_DequoteInvertsQuote ==
    \A cs \in Strings :
        /\ initial_tree = Apply(<<"quote", "dequote">>, PyStr(cs))
        /\ ValidLiteral(cs)
        /\ status \in {"done", "error"}
        => /\ status = "done"
           /\ ret = literal_eval(cs)

\* C28: quote(s) starts with the sentinel, is s itself exactly when s
\* already starts with it, a second quote changes nothing, and a value that
\* is not a string is rejected with a TypeError.
QuoteFirst == initial_tree.t = "apply" /\ Head(initial_tree.filters) = "quote"
QuoteOnce ==
    /\ QuoteFirst /\ initial_tree.value.t = "str"
    /\ status \in {"running", "done"} /\ Len(kont) = Len(initial_tree.filters) - 1
C28_QuoteIdempotent ==
    /\ [](QuoteOnce =>
            /\ ret.t = "str"
            /\ startswith(ret.chars, LITERAL_PREFIX)
            /\ (ret = initial_tree.value)
                  <=> startswith(initial_tree.value.chars, LITERAL_PREFIX))
    /\ [](QuoteFirst /\ initial_tree.value.t # "str" /\ status \in {"done", "error"}
            => status = "error" /\ err.type = "TypeError")
    /\ [][QuoteOnce /\ quote_filter => status' = "done" /\ ret' = ret]_vars
C28_Witness ==
    /\ initial_tree = Apply(<<"quote", "quote">>, PyStr(<<"#", "1">>))
    /\ status = "done"
    /\ ret = PyStr(<<"#", "!", "#", "1">>)

\* C29: what flatten gives for a finite tree of mappings, sequences and
\* scalars holds only plain mappings with string keys, plain lists and
\* scalars, and flattening it again changes nothing.
FlattenedOnce ==
    /\ initial_tree.t = "apply" /\ Head(initial_tree.filters) = "flatten"
    /\ status \in {"running", "done"} /\ Len(kont) = Len(initial_tree.filters) - 1
C29_FlattenIdempotent ==
    /\ [](initial_tree.t = "apply" /\ Head(initial_tree.filters) = "flatten"
            => status # "error")
    /\ [](FlattenedOnce => Plain(ret))
    /\ [][FlattenedOnce /\ flatten_call => status' = "done" /\ ret' = ret]_vars
C29_Witness ==
    /\ initial_tree = Apply(<<"flatten", "flatten">>,
            CommentedMap(<<KV(Num(1), ScalarStr("a")),
                            KV(Str("1"), Obj("2001-12-14"))>>))
    /\ status = "done"
    /\ ret = Map(<<KV(Str("1"), Str("2001-12-14"))>>)

\* C30: on a graph with a cycle flatten detects the cycle and rejects it:
\* it never gives a result, and it never enters an object it is already
\* flattening.
Reentered ==
    \E i, j \in 1..Len(kont) :
        /\ i < j
        /\ kont[i].op = "flatten" /\ kont[j].op = "flatten"
        /\ kont[i].node = kont[j].node
C30_FlattenRejectsCycles ==
    initial_tree.t = "graph" /\ Cyclic(initial_tree.objects)
        => status # "done" /\ ~Reentered

\* C31: two interpreter instances are isolated: whatever the interleaving
\* of their walks, an instance has no other names and filters than the
\* host's and those its own program binds, its host bindings are the
\* host's, and a call of a function that only the other instance defined
\* fails as a call of an unknown function.
OwnNames(p) ==
    IF p = FnFirstProg(1) THEN {"f"}
    ELSE IF p = TopModuleProg THEN DOMAIN ModuleVariables
    ELSE {}
OwnFilters(p) == IF p = TopModuleProg THEN ModuleFilters ELSE {}
HostNames == DOMAIN JINJA_GLOBALS \cup DOMAIN GLOBAL_CONTEXT
Isolated(i) ==
    /\ \A k \in 1..Len(i.stack) :
           DOMAIN i.stack[k] \subseteq HostNames \cup OwnNames(i.initial_tree)
    /\ \A k \in 1..Len(i.filters) :
           i.filters[k] \subseteq JINJA_FILTERS \cup OwnFilters(i.initial_tree)
    /\ i.stack # <<>> =>
           \A n \in DOMAIN GLOBAL_CONTEXT : Lookup(i.stack, n) = GLOBAL_CONTEXT[n]
    /\ i.initial_tree = CallsFProg /\ i.status \in {"done", "error"}
           => i.status = "error" /\ i.err.type = "KeyNotFound"
RECURSIVE FunctionsIn(_)
FunctionsIn(node) ==
    IF node.t \notin {"dict", "list"} THEN {}
    ELSE UNION {
        IF node.t = "list" THEN FunctionsIn(node.items[i])
        ELSE (IF node.items[i].k = ".function" THEN {node.items[i].v} ELSE {})
                 \cup FunctionsIn(node.items[i].v) :
        i \in 1..Len(node.items)}
StoredFunctions ==
    {stack[k][n] : <<k, n>> \in
        {p \in (1..Len(stack)) \X {"add", "get_x"} :
            /\ p[2] \in DOMAIN stack[p[1]]
            /\ stack[p[1]][p[2]].t = "dict"}}
\* what the last n children of test's .do gave
LastResults(n) ==
    LET results == Field(tree, "test").items IN
    SubSeq(results, Len(results) - n + 1, Len(results))
C32_CallKeepsFunction ==
    /\ StoredFunctions \subseteq FunctionsIn(initial_tree)
    /\ \A a \in {1, 2}, b \in {1, 2} :
           initial_tree = RepeatProg(a, b) /\ status \in {"done", "error"}
               => /\ status = "done"
                  /\ LastResults(3)[3] = LastResults(3)[1]
                  /\ LastResults(3)[1] = One(KV("value", Num(a + 1)))
C32_Witness ==
    /\ initial_tree = RepeatProg(1, 2)
    /\ status = "done"
    /\ LastResults(3) =
           <<One(KV("value", Num(2))), One(KV("value", Num(3))), One(KV("value", Num(2)))>>
    /\ Lookup(stack, "add") \in FunctionsIn(initial_tree)

\* C33: serialize signals a format that is not supported as an error, as
\* deserialize does: the call raises and gives the caller no value; no
\* format means yaml, and the case of the letters does not matter.
CallOfHost(name) ==
    /\ initial_tree.t = "apply" /\ initial_tree.filters = <<name>>
    /\ status \in {"done", "error"}
C33_UnsupportedFormatRaises ==
    \A f \in FormatNames :
        /\ (CallOfHost("serialize") \/ CallOfHost("deserialize"))
           /\ initial_tree.value.format = f /\ NormalFormat(f) \notin FILE_FORMATS
              => status = "error" /\ err.type = "ValueError"
        /\ CallOfHost("serialize") /\ initial_tree.value.format = f /\ status = "done"
              => /\ ret = Convert(ret.format, initial_tree.value.first)
                 /\ f = "" => ret.format = "yaml"
                 /\ f # "" => ret.format = lower(f)
====
